---- MODULE Spec2Model ----
(***************************************************************************)
(* The network benchmark of benix (src/src/benchmarks/network.ts, first    *)
(* implementation, lines 1-522): public-IP lookup, batched server          *)
(* discovery, sequential latency probing, the four selection passes, the   *)
(* presentation sort and the sequential download/upload loop.              *)
(*                                                                         *)
(* Every external command goes through exec (src/src/utils/exec.ts), which *)
(* never throws: it returns the trimmed output or "".  A step of the model *)
(* is what JavaScript runs between two awaits: one exec completes with an  *)
(* output chosen by the environment and the code runs on until the next    *)
(* exec is issued.  The selection passes, which contain no await, are      *)
(* split into one step per pass so that the state between passes is        *)
(* visible.                                                                *)
(*                                                                         *)
(* The API server's request guards (src/api/src/middleware/security.ts)    *)
(* are a second machine on variables of their own: the rate limiter with   *)
(* its cleanup interval, and the admin login lockout around adminAuth.     *)
(***************************************************************************)
EXTENDS Integers, Sequences, FiniteSets, TLC

VARIABLES
  maxServers,         \* the argument of runNetworkBenchmark
  env,                \* the outputs the external commands can give in this run
  pc,                 \* the await (or pass) runNetworkBenchmark is at
  inFlight,           \* exec calls issued and not yet completed
  issued,             \* kinds of exec calls issued so far (history)
  ipInfo,             \* getPublicIp: ip, provider, location
  ipLog,              \* history: the output of each completed lookup command
  result,             \* the NetworkResult under construction
  batchStart,         \* fetchSpeedtestServers: i
  batchResults,       \* fetchSpeedtestServers: the batch's settled promises
  servers,            \* fetchSpeedtestServers: servers
  seenIds,            \* fetchSpeedtestServers: seenIds
  serversToTest,      \* candidates pre-selected for latency probing
  probeIdx,           \* latency loop: i (1-based)
  serverLatencies,    \* successful probes: [server, latency]
  failedServers,      \* candidates whose probes both failed
  selectedServers,    \* selection passes: selectedServers
  selectedIds,        \* selection passes: selectedIds
  regionServerCount,  \* selection passes: regionServerCount
  addedInPass,        \* round-robin: addedInPass
  sortedServers,      \* presentation order
  testIdx,            \* bandwidth loop: i (1-based)
  downloads,          \* bandwidth loop: the download result of each server tested
  completionOrder,    \* history: the regions of the latest batch, as they completed
  probeLog,           \* history: the output of each completed probe command
  uploads,            \* history: the output of each completed upload command
  now,                \* execWithTimeout: the time in milliseconds
  timedCall,          \* execWithTimeout: the call under way
  dateNow,            \* API server: Date.now(), in milliseconds
  swept,              \* API server: the cleanup interval has fired at dateNow
  options,            \* rateLimit: the options of the limiter under study
  rateLimitStore,     \* rateLimit: key -> entry
  rateLimitLog,       \* history: the limiter's last answer and last blocking
  loginAttemptStore,  \* admin login: ip -> entry
  adminPending,       \* adminAuth: requests awaiting getAdminKey(), by key sent
  adminLog            \* history: adminAuth's last answer, the failures counted

vars == << maxServers, env, pc, inFlight, issued, ipInfo, ipLog, result, batchStart,
           batchResults, servers, seenIds, serversToTest, probeIdx,
           serverLatencies, failedServers, selectedServers, selectedIds,
           regionServerCount, addedInPass, sortedServers, testIdx, downloads,
           completionOrder, probeLog, uploads, now, timedCall, dateNow, swept,
           options, rateLimitStore, rateLimitLog, loginAttemptStore,
           adminPending, adminLog >>

---------------------------------------------------------------------------
(* Bounds of the model *)

\* how many of the search regions are queried
NumRegions == 7
\* the largest maxServers a run is started with
MaxServersBound == 6
\* the largest timeoutMs execWithTimeout is called with
MaxTimeout == 3
\* the longest a command started by execWithTimeout runs
MaxDuration == 4
\* The API server's clock runs for MaxClock cleanup intervals
MaxClock == 14
\* Admin requests of one client waiting for the database at the same time
MaxPending == 2

---------------------------------------------------------------------------
(* Program constants and tables *)

batchSize == 5
probesPerRegion == 3
failedLatency == 999
regionCap == 4
connectTimeToMs == 1000
bitsPerByte == 8
bpsPerMbps == 1000000

Min(a, b) == IF a <= b THEN a ELSE b
CeilDiv(a, b) == (a + b - 1) \div b

Range(s) == { s[i] : i \in DOMAIN s }

\* The value of a missing JSON field.
Undefined == "<undefined>"

AllRegions ==
  << "Hanoi", "Ho Chi Minh", "Da Nang", "Singapore", "Bangkok", "Jakarta",
     "Kuala Lumpur", "Manila", "Phnom Penh", "Tokyo", "Hong Kong", "Seoul" >>

SEARCH_REGIONS == SubSeq(AllRegions, 1, NumRegions)

COUNTRY_TO_REGION ==
  [ c \in { "Vietnam" } |-> "Vietnam" ] @@
  [ c \in { "Singapore", "Thailand", "Indonesia", "Malaysia", "Philippines",
            "Cambodia", "Myanmar", "Laos", "Brunei" } |-> "Southeast Asia" ] @@
  [ c \in { "Japan", "Hong Kong", "South Korea", "Taiwan", "China", "Macau",
            "Mongolia" } |-> "East Asia" ] @@
  [ c \in { "India", "Pakistan", "Bangladesh", "Sri Lanka", "Nepal" }
      |-> "South Asia" ] @@
  [ c \in { "Australia", "New Zealand", "Fiji", "Papua New Guinea" }
      |-> "Oceania" ] @@
  [ c \in { "United Kingdom", "Germany", "France", "Netherlands", "Sweden",
            "Spain", "Italy", "Poland", "Belgium", "Switzerland", "Austria",
            "Norway", "Denmark", "Finland", "Ireland", "Portugal",
            "Czech Republic", "Romania", "Greece", "Hungary", "Ukraine" }
      |-> "Europe" ] @@
  [ c \in { "United States", "Canada", "Mexico" } |-> "North America" ] @@
  [ c \in { "Brazil", "Argentina", "Chile", "Peru", "Colombia", "Venezuela",
            "Ecuador", "Uruguay", "Paraguay" } |-> "South America" ] @@
  [ c \in { "South Africa", "Egypt", "Nigeria", "Kenya", "Morocco", "Ghana",
            "Tanzania", "Algeria" } |-> "Africa" ] @@
  [ c \in { "United Arab Emirates", "Israel", "Saudi Arabia", "Turkey", "Qatar",
            "Kuwait", "Bahrain", "Oman", "Jordan", "Lebanon" }
      |-> "Middle East" ] @@
  [ c \in { "Russia", "Kazakhstan", "Belarus" } |-> "Russia" ]

getRegionFromCountry(country) ==
  IF country \in DOMAIN COUNTRY_TO_REGION THEN COUNTRY_TO_REGION[country]
  ELSE "Other"

regionOrder ==
  << "Vietnam", "Southeast Asia", "East Asia", "South Asia", "Oceania",
     "Europe", "North America", "South America", "Africa", "Middle East",
     "Russia" >>

\* Array.prototype.indexOf on regionOrder: 0-based, -1 when absent.
RECURSIVE IndexFrom(_, _, _)
IndexFrom(s, x, i) ==
  IF i > Len(s) THEN -1
  ELSE IF s[i] = x THEN i - 1
  ELSE IndexFrom(s, x, i + 1)

regionIndexOf(region) == IndexFrom(regionOrder, region, 1)

---------------------------------------------------------------------------
(* The environment: what the external commands print *)

\* The numbers the model's command outputs stand for; any other text
\* (the empty output of a failed command, an error page) parses to NaN.
NumericText ==
  ("0" :> 0) @@ ("1" :> 1) @@ ("10" :> 10) @@ ("1250000" :> 1250000) @@
  ("625000" :> 625000)

parseFloat(text) ==
  IF text \in DOMAIN NumericText
    THEN [ nan |-> FALSE, value |-> NumericText[text] ]
    ELSE [ nan |-> TRUE, value |-> 0 ]

IsPositive(n) == ~n.nan /\ n.value > 0

\* /^\d{1,3}\.\d{1,3}\.\d{1,3}\.\d{1,3}$/ on the outputs of the model
\* Mutant: any output of the echo service is taken for an address
isIPv4Any(text) == TRUE

isIPv4(text) == text \in { "203.0.113.7" }

\* The country of the server the directory knows under number n: four
\* servers of one group in two countries, two of another, the rest unmapped.
DirectoryCountry(n) ==
  CASE n = 1 -> "Singapore"
    [] n = 2 -> "Germany"
    [] n = 3 -> "Thailand"
    [] n = 4 -> "Singapore"
    [] n = 5 -> "France"
    [] n = 6 -> "Atlantis"
    [] n = 7 -> "Thailand"
    [] OTHER -> "Atlantis"

DirectoryEntry(n, labelled) ==
  [ id      |-> n,
    country |-> DirectoryCountry(n),
    sponsor |-> IF labelled THEN "ISP " \o ToString(n) ELSE Undefined,
    name    |-> IF labelled THEN "City " \o ToString(n) ELSE Undefined ]

\* What the directory lists for the k-th search region: its own server and
\* the previous region's, so that neighbouring queries overlap both inside a
\* batch and across the batch boundary.
DirectoryListing(k, labelled) ==
  IF k = 1 THEN << DirectoryEntry(1, labelled) >>
  ELSE << DirectoryEntry(k, labelled), DirectoryEntry(k - 1, labelled) >>

\* The output of the directory query for the k-th region, by kind:
\*   "empty"      curl failed, exec returned ""
\*   "garbage"    text that is not JSON
\*   "object"     JSON that is not an array
\*   "array"      a JSON array of well-formed entries
\*   "unlabelled" a JSON array whose entries carry neither sponsor nor name
DirectoryOutput(kind, k) ==
  CASE kind = "array" ->
         [ json |-> TRUE, array |-> TRUE, entries |-> DirectoryListing(k, TRUE) ]
    [] kind = "unlabelled" ->
         [ json |-> TRUE, array |-> TRUE, entries |-> DirectoryListing(k, FALSE) ]
    [] kind = "object" -> [ json |-> TRUE, array |-> FALSE, entries |-> << >> ]
    [] OTHER -> [ json |-> FALSE, array |-> FALSE, entries |-> << >> ]

\* The output of a geolocation query, by kind: "empty" (not JSON), "bare"
\* (a JSON object without the fields read) and "full".
GeoOutput(kind) ==
  CASE kind = "full" ->
         [ json |-> TRUE, org |-> "AS64500 Example", place |-> "Hanoi, Vietnam" ]
    [] kind = "bare" -> [ json |-> TRUE, org |-> Undefined, place |-> Undefined ]
    [] OTHER -> [ json |-> FALSE, org |-> Undefined, place |-> Undefined ]

Call(kind, arg) == [ kind |-> kind, arg |-> arg ]

\* No execWithTimeout call has been made.
noCall == [ status |-> "none" ]

---------------------------------------------------------------------------
(* getPublicIp *)

unknownIp == [ ip |-> "Unknown", provider |-> "Unknown", location |-> "Unknown" ]

\* json.org || json.isp || 'Unknown' and the joined location, of a parsed reply
geoProvider(g) == IF g.org = Undefined THEN "Unknown" ELSE g.org
geoLocation(g) == IF g.place = Undefined THEN "Unknown" ELSE g.place

\* Mutant: the lookup's values are not copied into the result
populateNothing(r, info) == r

\* result.publicIp = ipInfo.ip; result.provider = ...; result.location = ...
populateResult(r, info) ==
  [ r EXCEPT !.publicIp = info.ip, !.provider = info.provider,
             !.location = info.location ]

---------------------------------------------------------------------------
(* fetchSpeedtestServers *)

\* The indexes into SEARCH_REGIONS of regions.slice(i, i + batchSize)
batchOf(i) == { k \in 1..Len(SEARCH_REGIONS) : i < k /\ k <= i + batchSize }

\* Mutant: every remaining region is queried at once
queryCallsUnbatched(i) ==
  { Call("query", k) : k \in (i + 1)..Len(SEARCH_REGIONS) }

\* The exec calls started by batch.map for the batch at i
queryCalls(i) == { Call("query", k) : k \in batchOf(i) }

\* One region's promise: JSON.parse, Array.isArray, the region tag; [] on
\* anything else.
parseServers(out, region) ==
  IF out.json /\ out.array
    THEN [ j \in DOMAIN out.entries |-> out.entries[j] @@ [ region |-> region ] ]
    ELSE << >>

\* Mutant: the merge does not consult seenIds
isNewServerAlways(seen, server) == TRUE

\* if (!seenIds.has(server.id)) for one server
isNewServer(seen, server) == server.id \notin seen

\* The merge loop over one region's servers
RECURSIVE mergeRegion(_, _, _)
mergeRegion(acc, list, j) ==
  IF j > Len(list) THEN acc
  ELSE IF isNewServer(acc.seen, list[j])
    THEN mergeRegion([ servers |-> Append(acc.servers, list[j]),
                       seen |-> acc.seen \cup { list[j].id } ], list, j + 1)
    ELSE mergeRegion(acc, list, j + 1)

\* Mutant: the batch's results are merged in the order the queries completed
RECURSIVE mergeInOrder(_, _, _, _)
mergeInOrder(acc, results, order, n) ==
  IF n > Len(order) THEN acc
  ELSE mergeInOrder(mergeRegion(acc, results[order[n]], 1), results, order, n + 1)

mergeBatchAsCompleted(acc, results, k, last) ==
  mergeInOrder(acc, results, completionOrder, 1)

\* Mutant: a region without servers ends the merge of its batch
RECURSIVE mergeBatchUntilFailure(_, _, _, _)
mergeBatchUntilFailure(acc, results, k, last) ==
  IF k > last \/ Len(results[k]) = 0 THEN acc
  ELSE mergeBatchUntilFailure(mergeRegion(acc, results[k], 1), results, k + 1, last)

\* The merge loop over the batch's results, in the order of the batch
RECURSIVE mergeBatch(_, _, _, _)
mergeBatch(acc, results, k, last) ==
  IF k > last THEN acc
  ELSE mergeBatch(mergeRegion(acc, results[k], 1), results, k + 1, last)

---------------------------------------------------------------------------
(* testLatency and the probe pre-selection *)

\* regionCount[geoRegion] <= 3, for the candidate at position j
RECURSIVE preSelectFrom(_, _, _, _)
preSelectFrom(list, j, counts, acc) ==
  IF j > Len(list) THEN acc
  ELSE LET g == getRegionFromCountry(list[j].country)
           n == counts[g] + 1
       IN preSelectFrom(list, j + 1, [ counts EXCEPT ![g] = n ],
                        IF n <= probesPerRegion THEN Append(acc, list[j]) ELSE acc)

allGroups == Range(regionOrder) \cup { "Other" }

\* Mutant: every candidate is probed
preSelectAll(list) == list

\* Mutant: the candidates are counted by country, not by group
preSelectByCountry(list) ==
  SelectSeq(list, LAMBDA s :
    Cardinality({ j \in DOMAIN list :
                    /\ list[j].country = s.country
                    /\ j < (CHOOSE n \in DOMAIN list : list[n].id = s.id) })
      < probesPerRegion)

preSelect(list) == preSelectFrom(list, 1, [ g \in allGroups |-> 0 ], << >>)

\* serverLatencies.sort((a, b) => a.latency - b.latency), stable
RECURSIVE insertByLatency(_, _, _)
insertByLatency(sorted, e, j) ==
  IF j > Len(sorted) THEN Append(sorted, e)
  ELSE IF sorted[j].latency - e.latency > 0
    THEN SubSeq(sorted, 1, j - 1) \o << e >> \o SubSeq(sorted, j, Len(sorted))
    ELSE insertByLatency(sorted, e, j + 1)

RECURSIVE sortByLatencyFrom(_, _, _)
sortByLatencyFrom(list, j, acc) ==
  IF j > Len(list) THEN acc
  ELSE sortByLatencyFrom(list, j + 1, insertByLatency(acc, list[j], 1))

sortByLatency(list) == sortByLatencyFrom(list, 1, << >>)

---------------------------------------------------------------------------
(* The selection passes.  A pass works on                                  *)
(*   st = [ sel   : selectedServers, ids : selectedIds,                    *)
(*          cnt   : regionServerCount, added : addedInPass ]               *)

\* regionGroups[region] || []: the successful probes of a group, by latency
regionGroup(sl, region) ==
  SelectSeq(sl, LAMBDA e : getRegionFromCountry(e.server.country) = region)

availableRegions(sl) ==
  { r \in Range(regionOrder) : Len(regionGroup(sl, r)) > 0 }

\* Math.min(4, Math.ceil(maxServers / availableRegions.length) + 1); with no
\* available region the division gives Infinity and the minimum is 4.
maxPerRegion(sl, max) ==
  LET n == Cardinality(availableRegions(sl))
  IN IF n = 0 THEN regionCap ELSE Min(regionCap, CeilDiv(max, n) + 1)

\* Mutant: the pushed server's ID is not remembered
addUntracked(st, region, e) ==
  [ st EXCEPT !.sel = Append(@, e), !.cnt = [ @ EXCEPT ![region] = @ + 1 ] ]

\* selectedServers.push(entry); selectedIds.add(...); regionServerCount[region]++
addCounted(st, region, e) ==
  [ st EXCEPT !.sel = Append(@, e), !.ids = @ \cup { e.server.id },
              !.cnt = [ @ EXCEPT ![region] = @ + 1 ] ]

\* Mutant: the first pass's inner loop never breaks
coveragePickAll(regionServers) == regionServers

\* Mutant: the first pass takes the group's last successful probe
coveragePickLast(regionServers) ==
  IF Len(regionServers) > 0 THEN << regionServers[Len(regionServers)] >> ELSE << >>

\* Mutant: the first pass's inner loop breaks at a count of 2
coveragePickTwo(regionServers) ==
  SubSeq(regionServers, 1, Min(2, Len(regionServers)))

\* The entries the first pass's inner loop pushes for a group: it breaks as
\* soon as the group's count is 1.
coveragePick(regionServers) ==
  IF Len(regionServers) > 0 THEN << Head(regionServers) >> ELSE << >>

RECURSIVE addAllCounted(_, _, _, _)
addAllCounted(st, region, list, j) ==
  IF j > Len(list) THEN st
  ELSE addAllCounted(addCounted(st, region, list[j]), region, list, j + 1)

\* First pass, one group: the best successful probe, else the first failed
\* candidate of the group with the placeholder latency.
coverageRegion(st, region, sl, failed) ==
  LET st1 == addAllCounted(st, region, coveragePick(regionGroup(sl, region)), 1)
      cands == SelectSeq(failed, LAMBDA s :
                 getRegionFromCountry(s.country) = region /\ s.id \notin st1.ids)
  IN IF st1.cnt[region] = 0 /\ Len(cands) > 0
       THEN addCounted(st1, region,
                       [ server |-> Head(cands), latency |-> failedLatency ])
       ELSE st1

RECURSIVE coverageFrom(_, _, _, _)
coverageFrom(st, k, sl, failed) ==
  IF k > Len(regionOrder) THEN st
  ELSE coverageFrom(coverageRegion(st, regionOrder[k], sl, failed), k + 1, sl, failed)

\* Mutant: the sweep takes the group's last unselected entry
lastUnselected(cands) == cands[Len(cands)]

\* The inner loop of the second pass pushes the first entry of the group that
\* is not yet selected, and breaks.
firstUnselected(cands) == Head(cands)

\* Mutant: a sweep adds nothing
sweepNothing(st, k, sl, max, cap) == st

\* Second pass, one sweep of the for loop over regionOrder
RECURSIVE sweepFrom(_, _, _, _, _)
sweepFrom(st, k, sl, max, cap) ==
  IF k > Len(regionOrder) \/ Len(st.sel) >= max THEN st
  ELSE LET region == regionOrder[k]
           cands == SelectSeq(regionGroup(sl, region),
                              LAMBDA e : e.server.id \notin st.ids)
       IN IF st.cnt[region] >= cap \/ Len(cands) = 0
            THEN sweepFrom(st, k + 1, sl, max, cap)
            ELSE sweepFrom([ addCounted(st, region, firstUnselected(cands))
                               EXCEPT !.added = TRUE ], k + 1, sl, max, cap)

\* Mutant: a group without a count is taken to have none selected
underCapDefaulted(cnt, region, cap) ==
  IF region \in DOMAIN cnt THEN cnt[region] < cap ELSE 0 < cap

\* regionServerCount[region] < maxPerRegion; the count of a group outside
\* regionOrder is undefined and the comparison false.
underCap(cnt, region, cap) ==
  region \in DOMAIN cnt /\ cnt[region] < cap

\* Third pass: best latency first, still under the cap
RECURSIVE backfillFrom(_, _, _, _, _)
backfillFrom(st, j, sl, max, cap) ==
  IF j > Len(sl) \/ Len(st.sel) >= max THEN st
  ELSE LET e == sl[j]
           region == getRegionFromCountry(e.server.country)
       IN IF e.server.id \notin st.ids /\ underCap(st.cnt, region, cap)
            THEN backfillFrom(addCounted(st, region, e), j + 1, sl, max, cap)
            ELSE backfillFrom(st, j + 1, sl, max, cap)

\* Mutant: the final pass adds nothing
finalFromNothing(st, j, sl, max) == st

\* Final pass: any remaining successful probe, no cap, no count
RECURSIVE finalFrom(_, _, _, _)
finalFrom(st, j, sl, max) ==
  IF j > Len(sl) \/ Len(st.sel) >= max THEN st
  ELSE IF sl[j].server.id \notin st.ids
    THEN finalFrom([ st EXCEPT !.sel = Append(@, sl[j]),
                               !.ids = @ \cup { sl[j].server.id } ],
                   j + 1, sl, max)
    ELSE finalFrom(st, j + 1, sl, max)

\* Mutant: the selection is not cut to maxServers
finalServersUncut(sel, max) == sel

\* selectedServers.slice(0, maxServers)
\* Mutant: the last maxServers entries are kept
finalServersLast(sel, max) ==
  SubSeq(sel, Len(sel) - Min(Len(sel), max) + 1, Len(sel))

finalServers(sel, max) == SubSeq(sel, 1, Min(Len(sel), max))

\* String.prototype.localeCompare on the country names of the model
countryRank ==
  ("Atlantis" :> 1) @@ ("France" :> 2) @@ ("Germany" :> 3) @@
  ("Singapore" :> 4) @@ ("Thailand" :> 5)

localeCompare(a, b) == countryRank[a] - countryRank[b]

\* Mutant: the comparator stops at the group
compareRegionOnly(a, b) ==
  regionIndexOf(getRegionFromCountry(a.server.country))
    - regionIndexOf(getRegionFromCountry(b.server.country))

\* The comparator of the presentation sort
compareServers(a, b) ==
  LET orderA == regionIndexOf(getRegionFromCountry(a.server.country))
      orderB == regionIndexOf(getRegionFromCountry(b.server.country))
  IN IF orderA # orderB THEN orderA - orderB
     ELSE IF a.server.country # b.server.country
       THEN localeCompare(a.server.country, b.server.country)
     ELSE a.latency - b.latency

\* [...finalServers].sort(compareServers), stable
RECURSIVE insertSorted(_, _, _)
insertSorted(sorted, e, j) ==
  IF j > Len(sorted) THEN Append(sorted, e)
  ELSE IF compareServers(sorted[j], e) > 0
    THEN SubSeq(sorted, 1, j - 1) \o << e >> \o SubSeq(sorted, j, Len(sorted))
    ELSE insertSorted(sorted, e, j + 1)

RECURSIVE sortServersFrom(_, _, _)
sortServersFrom(list, j, acc) ==
  IF j > Len(list) THEN acc
  ELSE sortServersFrom(list, j + 1, insertSorted(acc, list[j], 1))

sortServers(list) == sortServersFrom(list, 1, << >>)

---------------------------------------------------------------------------
(* testDownload, testUpload and the test result *)

\* (speedBps * 8 / 1000000).toFixed(0) + ' Mbps'
formatMbps(speedBps) ==
  ToString((speedBps * bitsPerByte + bpsPerMbps \div 2) \div bpsPerMbps) \o " Mbps"

testDownload(output) ==
  LET speedBps == parseFloat(output)
  IN IF IsPositive(speedBps)
       THEN [ speed |-> speedBps.value, mbps |-> formatMbps(speedBps.value) ]
       ELSE [ speed |-> 0, mbps |-> "N/A" ]

\* Mutant: the upload rate is formatted without the check
testUploadUnchecked(output) == formatMbps(parseFloat(output).value)

testUpload(output) ==
  LET speedBps == parseFloat(output)
  IN IF IsPositive(speedBps) THEN formatMbps(speedBps.value) ELSE "N/A"

\* Mutant: a zero download does not skip the server
downloadNeverFailed(download) == FALSE

\* if (download.speed === 0) { ...; continue; }
downloadFailed(download) == download.speed = 0

\* server.sponsor || server.name
serverLabel(server) ==
  IF server.sponsor # Undefined /\ server.sponsor # "" THEN server.sponsor
  ELSE server.name

\* `${server.name}, ${server.country}`
serverLocation(server) ==
  (IF server.name = Undefined THEN "undefined" ELSE server.name)
    \o ", " \o server.country

\* `${latency.toFixed(2)} ms`, the latencies of the model being whole numbers
formatLatency(latency) == ToString(latency) \o ".00 ms"

makeTestResult(entry, download, upload) ==
  [ server   |-> serverLabel(entry.server),
    location |-> serverLocation(entry.server),
    download |-> download.mbps,
    upload   |-> upload,
    latency  |-> formatLatency(entry.latency) ]

\* Mutant: the result is put in front of the list
pushTestFirst(tests, testResult) == << testResult >> \o tests

\* result.tests.push(testResult)
pushTest(tests, testResult) == Append(tests, testResult)

\* testResult.server.substring(0, 20) in the line printed after the push
\* throws a TypeError when neither sponsor nor name is present.
printThrows(testResult) == testResult.server = Undefined

---------------------------------------------------------------------------
(* The exec calls each await issues *)

\* Mutant: the connect time is returned in seconds
httpLatencySeconds(output) ==
  IF IsPositive(parseFloat(output)) THEN parseFloat(output).value ELSE -1

\* The fallback's value: the connect time in milliseconds, -1 on failure
httpLatency(output) ==
  LET connectTime == parseFloat(output)
  IN IF IsPositive(connectTime) THEN connectTime.value * connectTimeToMs ELSE -1

\* A completed exec call with what it printed
logged(c, out) == [ kind |-> c.kind, arg |-> c.arg, out |-> out ]

\* testLatency tries ping first
latencyCalls(server) == { Call("ping", server.id) }

\* the fallback of testLatency
fallbackCalls(server) == { Call("http", server.id) }

\* const download = await testDownload(server), for sortedServers[i]
downloadCalls(i) == { Call("download", i) }

\* Mutant: the next server's download starts together with the upload
uploadCallsWithNext(i) == { Call("upload", i), Call("download", i + 1) }

\* const upload = await testUpload(server), for sortedServers[i]
uploadCalls(i) == { Call("upload", i) }

---------------------------------------------------------------------------
(* Environments: the outputs a run can meet *)

\* Probes fail or succeed on either path; everything else answers.
ProbeEnv ==
  [ echo |-> { "203.0.113.7" }, geo |-> { "full" }, geo2 |-> { "full" },
    dir |-> { "array" }, ping |-> { "", "10" }, http |-> { "", "1" },
    download |-> { "1250000" }, upload |-> { "625000" } ]

\* Directory queries fail or answer, probes fail or succeed by ping.
SparseEnv ==
  [ echo |-> { "203.0.113.7" }, geo |-> { "full" }, geo2 |-> { "full" },
    dir |-> { "empty", "array" }, ping |-> { "", "10" }, http |-> { "" },
    download |-> { "1250000" }, upload |-> { "625000" } ]

\* The IP lookup and the directory fail in every way; probes and tests answer.
DiscoveryEnv ==
  [ echo |-> { "", "<html>", "203.0.113.7" },
    geo |-> { "empty", "bare", "full" }, geo2 |-> { "empty", "full" },
    dir |-> { "empty", "garbage", "object", "array" },
    ping |-> { "10" }, http |-> { "1" },
    download |-> { "1250000" }, upload |-> { "625000" } ]

\* Downloads and uploads fail in every way; everything else answers.
BandwidthEnv ==
  [ echo |-> { "203.0.113.7" }, geo |-> { "full" }, geo2 |-> { "full" },
    dir |-> { "array" }, ping |-> { "10" }, http |-> { "1" },
    download |-> { "", "<html>", "0", "1250000" },
    upload |-> { "", "0", "625000" } ]

\* The directory answers with arrays whose entries may lack sponsor and name.
MalformedEnv ==
  [ echo |-> { "203.0.113.7" }, geo |-> { "full" }, geo2 |-> { "full" },
    dir |-> { "array", "unlabelled" }, ping |-> { "10" }, http |-> { "1" },
    download |-> { "1250000" }, upload |-> { "625000" } ]

---------------------------------------------------------------------------
(* The API server's request guards, src/api/src/middleware/security.ts.    *)
(* Times are Date.now() values in milliseconds.  A Map is a function on    *)
(* its keys; an optional number that is undefined is 0, which the code's   *)
(* truthiness tests treat alike.                                           *)

cleanupInterval == 300000
cleanupAge == 3600000
MAX_LOGIN_ATTEMPTS == 5
LOGIN_WINDOW == 15 * 60 * 1000
LOCKOUT_DURATION == 30 * 60 * 1000

\* The three limiters the server installs
generalLimit ==
  [ windowMs |-> 60 * 1000, maxRequests |-> 100, blockDuration |-> 60 * 1000,
    keyPrefix |-> "general" ]

adminLimit ==
  [ windowMs |-> 60 * 1000, maxRequests |-> 20, blockDuration |-> 5 * 60 * 1000,
    keyPrefix |-> "admin" ]

uploadLimit ==
  [ windowMs |-> 60 * 60 * 1000, maxRequests |-> 3,
    blockDuration |-> 60 * 60 * 1000, keyPrefix |-> "benchmark-upload" ]

\* getClientIP(c) of the one client whose requests are followed
clientIp == "198.51.100.9"

emptyMap == [ k \in {} |-> 0 ]
mapSet(m, key, value) ==
  [ k \in DOMAIN m \cup { key } |-> IF k = key THEN value ELSE m[k] ]
mapDelete(m, key) == [ k \in DOMAIN m \ { key } |-> m[k] ]

\* The callback of setInterval: entries older than one hour are deleted
cleanupEntries(store, t) ==
  [ k \in { x \in DOMAIN store : ~(t - store[x].firstRequest > cleanupAge) }
      |-> store[k] ]

\* `${keyPrefix}:${ip}`
rateLimitKey(opts) == opts.keyPrefix \o ":" \o clientIp

\* entry?.blocked && entry.blockedUntil && now < entry.blockedUntil
isBlocked(store, key, t) ==
  /\ key \in DOMAIN store
  /\ store[key].blocked
  /\ store[key].blockedUntil # 0
  /\ t < store[key].blockedUntil

\* The entry after lines 52-58: a fresh one if there is none, the window
\* has expired or a block has expired, else the old one counted up
countRequest(store, key, t, opts) ==
  IF \/ key \notin DOMAIN store
     \/ t - store[key].firstRequest > opts.windowMs
     \/ /\ store[key].blocked
        /\ store[key].blockedUntil # 0
        /\ t >= store[key].blockedUntil
    THEN [ count |-> 1, firstRequest |-> t, blocked |-> FALSE, blockedUntil |-> 0 ]
    ELSE [ store[key] EXCEPT !.count = @ + 1 ]

\* The middleware rateLimit(options) returns, for a request at time t: the
\* store it leaves, the answer (429, or "next" when the request is passed
\* on) and whether this request set the block.
rateLimit(store, opts, t) ==
  LET key == rateLimitKey(opts)
  IN IF isBlocked(store, key, t)
       THEN [ store |-> store, status |-> "429", blocking |-> FALSE ]
       ELSE LET entry == countRequest(store, key, t, opts)
            IN IF entry.count > opts.maxRequests
                 THEN [ store |-> mapSet(store, key,
                                    [ entry EXCEPT !.blocked = TRUE,
                                        !.blockedUntil = t + opts.blockDuration ]),
                        status |-> "429", blocking |-> TRUE ]
                 ELSE [ store |-> mapSet(store, key, entry),
                        status |-> "next", blocking |-> FALSE ]

trackFailedLogin(store, ip, t) ==
  IF ip \notin DOMAIN store \/ t - store[ip].firstAttempt > LOGIN_WINDOW
    THEN mapSet(store, ip, [ attempts |-> 1, firstAttempt |-> t, lockedUntil |-> 0 ])
    ELSE LET n == store[ip].attempts + 1
         IN mapSet(store, ip,
                   [ store[ip] EXCEPT !.attempts = n,
                       !.lockedUntil = IF n >= MAX_LOGIN_ATTEMPTS
                                         THEN t + LOCKOUT_DURATION ELSE @ ])

clearLoginAttempts(store, ip) == mapDelete(store, ip)

\* entry?.lockedUntil && now < entry.lockedUntil
isIPLockedOut(store, ip, t) ==
  /\ ip \in DOMAIN store
  /\ store[ip].lockedUntil # 0
  /\ t < store[ip].lockedUntil

\* getAdminKey(): the key the database holds; a request sends it or another
currentKey == "key"
sentKeys == { "key", "guess" }

noPending == [ k \in sentKeys |-> 0 ]
pendingCount(pending) == pending["key"] + pending["guess"]

apiVars ==
  << dateNow, swept, options, rateLimitStore, rateLimitLog, loginAttemptStore,
     adminPending, adminLog >>

\* The server has just started: empty stores, no request so far, and the
\* cleanup interval not yet due.
InitApi(limits) ==
  /\ dateNow = 0
  /\ swept = TRUE
  /\ options \in limits
  /\ rateLimitStore = emptyMap
  /\ rateLimitLog = [ status |-> "none", blockedAt |-> -1 ]
  /\ loginAttemptStore = emptyMap
  /\ adminPending = noPending
  /\ adminLog = [ status |-> "none", windowStart |-> -1, failures |-> 0,
                  fifthFailure |-> -1 ]

---------------------------------------------------------------------------
(* Initial state: runNetworkBenchmark(maxServers) has issued its first exec *)

InitWith(e, sizes) ==
  /\ maxServers \in sizes
  /\ env = e
  /\ pc = "ip"
  /\ inFlight = { Call("echo", 0) }
  /\ issued = { "echo" }
  /\ ipInfo = unknownIp
  /\ ipLog = << >>
  /\ result = [ publicIp |-> "Unknown", provider |-> "Unknown",
                location |-> "Unknown", tests |-> << >> ]
  /\ batchStart = 0
  /\ batchResults = [ k \in 1..Len(SEARCH_REGIONS) |-> << >> ]
  /\ servers = << >>
  /\ seenIds = {}
  /\ serversToTest = << >>
  /\ probeIdx = 0
  /\ serverLatencies = << >>
  /\ failedServers = << >>
  /\ selectedServers = << >>
  /\ selectedIds = {}
  /\ regionServerCount = [ g \in Range(regionOrder) |-> 0 ]
  /\ addedInPass = FALSE
  /\ sortedServers = << >>
  /\ testIdx = 0
  /\ downloads = << >>
  /\ completionOrder = << >>
  /\ probeLog = << >>
  /\ uploads = << >>
  /\ now = 0
  /\ timedCall = noCall
  /\ InitApi({ generalLimit })

\* Every maxServers up to the bound on the full candidate list; with failing
\* directory queries one value below and one above the number of groups the
\* directory knows.
Init ==
  \/ InitWith(ProbeEnv, 1..MaxServersBound)
  \/ InitWith(SparseEnv, { 2, 4 })

fetchVars == << batchStart, batchResults, servers, seenIds, completionOrder >>
probeVars == << serversToTest, probeIdx, serverLatencies, failedServers, probeLog >>
selectVars == << selectedServers, selectedIds, regionServerCount, addedInPass >>
testVars == << sortedServers, testIdx, downloads, uploads >>
execVars == << now, timedCall >>

\* The completed calls leave, the new ones are issued.
Issue(completed, new) ==
  /\ inFlight' = (inFlight \ completed) \cup new
  /\ issued' = issued \cup { c.kind : c \in new }

---------------------------------------------------------------------------
(* getPublicIp, lines 109-142, and its return into runNetworkBenchmark,    *)
(* lines 280-286, where fetchSpeedtestServers issues its first batch       *)

IpReturn(c, info) ==
  /\ ipInfo' = info
  /\ result' = populateResult(result, info)
  /\ pc' = "fetch"
  /\ Issue({ c }, queryCalls(0))
  /\ UNCHANGED << execVars, apiVars, maxServers, env, fetchVars, probeVars, selectVars, testVars >>

IpNext(c, info, call) ==
  /\ ipInfo' = info
  /\ Issue({ c }, { call })
  /\ UNCHANGED << execVars, apiVars, maxServers, env, pc, result, fetchVars, probeVars, selectVars,
                  testVars >>

IpExecDone ==
  /\ pc = "ip"
  /\ \E c \in inFlight :
       IF c.kind = "echo"
         THEN \E out \in env.echo :
                /\ ipLog' = Append(ipLog, logged(c, out))
                /\ IF isIPv4(out)
                     THEN IpNext(c, [ ipInfo EXCEPT !.ip = out ], Call("geo", 0))
                     ELSE IpReturn(c, ipInfo)
       ELSE IF c.kind = "geo"
         THEN \E kind \in env.geo :
                LET json == GeoOutput(kind)
                IN /\ ipLog' = Append(ipLog, logged(c, kind))
                   /\ IF json.json
                        THEN IpReturn(c, [ ipInfo EXCEPT
                                             !.provider = geoProvider(json),
                                             !.location = geoLocation(json) ])
                        ELSE IpNext(c, ipInfo, Call("geo2", 0))
       ELSE \E kind \in env.geo2 :
                LET json == GeoOutput(kind)
                IN /\ ipLog' = Append(ipLog, logged(c, kind))
                   /\ IF json.json
                        THEN IpReturn(c, [ ipInfo EXCEPT
                                             !.provider = geoProvider(json),
                                             !.location = geoLocation(json) ])
                        ELSE IpReturn(c, ipInfo)

---------------------------------------------------------------------------
(* fetchSpeedtestServers, lines 144-183 *)

\* One directory query of the batch completes.
QueryDone ==
  /\ pc = "fetch"
  /\ \E c \in inFlight : \E kind \in env.dir :
       /\ c.kind = "query"
       /\ batchResults' =
            [ batchResults EXCEPT
                ![c.arg] = parseServers(DirectoryOutput(kind, c.arg),
                                        SEARCH_REGIONS[c.arg]) ]
       /\ completionOrder' =
            IF Len(completionOrder) > 0 /\ Head(completionOrder) <= batchStart
              THEN << c.arg >>
              ELSE Append(completionOrder, c.arg)
       /\ Issue({ c }, {})
  /\ UNCHANGED << execVars, apiVars, maxServers, env, pc, ipInfo, ipLog, result, batchStart, servers,
                  seenIds, probeVars, selectVars, testVars >>

\* Promise.all has resolved: the batch is merged; then the next batch is
\* issued, or the function returns and runNetworkBenchmark goes on (lines
\* 288-312): no server ends the run, otherwise the candidates to probe are
\* pre-selected and the first probe is issued.
MergeBatch ==
  /\ pc = "fetch"
  /\ inFlight = {}
  /\ LET last == Min(batchStart + batchSize, Len(SEARCH_REGIONS))
         acc == mergeBatch([ servers |-> servers, seen |-> seenIds ],
                           batchResults, batchStart + 1, last)
         toTest == preSelect(acc.servers)
     IN /\ servers' = acc.servers
        /\ seenIds' = acc.seen
        /\ IF batchStart + batchSize < Len(SEARCH_REGIONS)
             THEN /\ batchStart' = batchStart + batchSize
                  /\ Issue({}, queryCalls(batchStart + batchSize))
                  /\ UNCHANGED << pc, serversToTest, probeIdx, completionOrder >>
           ELSE IF Len(acc.servers) = 0
             THEN /\ pc' = "done"
                  /\ completionOrder' = << >>
                  /\ UNCHANGED << batchStart, inFlight, issued, serversToTest,
                                  probeIdx >>
           ELSE /\ pc' = "probe"
                /\ serversToTest' = toTest
                /\ probeIdx' = 1
                /\ completionOrder' = << >>
                /\ Issue({}, latencyCalls(toTest[1]))
                /\ UNCHANGED batchStart
  /\ UNCHANGED << execVars, apiVars, maxServers, env, ipInfo, ipLog, result, batchResults,
                  serverLatencies, failedServers, probeLog, selectVars, testVars >>

---------------------------------------------------------------------------
(* The latency loop, lines 306-323, with testLatency, lines 185-225 *)

\* testLatency has returned `latency` for serversToTest[probeIdx]: the loop
\* records it and probes the next candidate, or sorts the successful probes.
ProbeRecorded(c, latency) ==
  LET server == serversToTest[probeIdx]
      lats == IF latency > 0
                THEN Append(serverLatencies,
                            [ server |-> server, latency |-> latency ])
                ELSE serverLatencies
  IN /\ failedServers' = IF latency > 0 THEN failedServers
                         ELSE Append(failedServers, server)
     /\ probeIdx' = probeIdx + 1
     /\ IF probeIdx < Len(serversToTest)
          THEN /\ serverLatencies' = lats
               /\ Issue({ c }, latencyCalls(serversToTest[probeIdx + 1]))
               /\ pc' = pc
          ELSE /\ serverLatencies' = sortByLatency(lats)
               /\ Issue({ c }, {})
               /\ pc' = "coverage"

ProbeExecDone ==
  /\ pc = "probe"
  /\ \E c \in inFlight :
       IF c.kind = "ping"
         THEN \E out \in env.ping :
                LET latency == parseFloat(out)
                IN /\ probeLog' = Append(probeLog, logged(c, out))
                   /\ IF IsPositive(latency)
                        THEN ProbeRecorded(c, latency.value)
                        ELSE /\ Issue({ c }, fallbackCalls(serversToTest[probeIdx]))
                             /\ UNCHANGED << pc, probeIdx, serverLatencies,
                                             failedServers >>
         ELSE \E out \in env.http :
                /\ probeLog' = Append(probeLog, logged(c, out))
                /\ ProbeRecorded(c, httpLatency(out))
  /\ UNCHANGED << execVars, apiVars, maxServers, env, ipInfo, ipLog, result, fetchVars, serversToTest,
                  selectVars, testVars >>

---------------------------------------------------------------------------
(* The selection passes, lines 336-432 *)

selectionState ==
  [ sel |-> selectedServers, ids |-> selectedIds, cnt |-> regionServerCount,
    added |-> FALSE ]

Selected(st, added) ==
  /\ selectedServers' = st.sel
  /\ selectedIds' = st.ids
  /\ regionServerCount' = st.cnt
  /\ addedInPass' = added

\* First pass, lines 359-385, and let addedInPass = true
CoveragePass ==
  /\ pc = "coverage"
  /\ Selected(coverageFrom(selectionState, 1, serverLatencies, failedServers),
              TRUE)
  /\ pc' = "roundrobin"
  /\ UNCHANGED << execVars, apiVars, maxServers, env, inFlight, issued, ipInfo, ipLog, result, fetchVars,
                  probeVars, testVars >>

\* Second pass, lines 388-407: one iteration of the while loop, or its exit
RoundRobinSweep ==
  /\ pc = "roundrobin"
  /\ IF addedInPass /\ Len(selectedServers) < maxServers
       THEN LET st == sweepFrom(selectionState, 1, serverLatencies, maxServers,
                                maxPerRegion(serverLatencies, maxServers))
            IN Selected(st, st.added) /\ pc' = pc
       ELSE pc' = "backfill" /\ UNCHANGED selectVars
  /\ UNCHANGED << execVars, apiVars, maxServers, env, inFlight, issued, ipInfo, ipLog, result, fetchVars,
                  probeVars, testVars >>

\* Third pass, lines 409-420
BackfillPass ==
  /\ pc = "backfill"
  /\ Selected(backfillFrom(selectionState, 1, serverLatencies, maxServers,
                           maxPerRegion(serverLatencies, maxServers)),
              addedInPass)
  /\ pc' = "final"
  /\ UNCHANGED << execVars, apiVars, maxServers, env, inFlight, issued, ipInfo, ipLog, result, fetchVars,
                  probeVars, testVars >>

\* Final pass, lines 422-429
FinalPass ==
  /\ pc = "final"
  /\ Selected(finalFrom(selectionState, 1, serverLatencies, maxServers),
              addedInPass)
  /\ pc' = "sort"
  /\ UNCHANGED << execVars, apiVars, maxServers, env, inFlight, issued, ipInfo, ipLog, result, fetchVars,
                  probeVars, testVars >>

\* Lines 431-472: the truncation, the presentation sort and the start of the
\* bandwidth loop, which issues the first download (an empty list ends the run).
SortServers ==
  /\ pc = "sort"
  /\ LET sorted == sortServers(finalServers(selectedServers, maxServers))
     IN /\ sortedServers' = sorted
        /\ IF Len(sorted) = 0
             THEN pc' = "done" /\ UNCHANGED << inFlight, issued, testIdx >>
             ELSE /\ pc' = "bandwidth"
                  /\ testIdx' = 1
                  /\ Issue({}, downloadCalls(1))
  /\ UNCHANGED << execVars, apiVars, maxServers, env, ipInfo, ipLog, result, fetchVars, probeVars,
                  selectVars, downloads, uploads >>

---------------------------------------------------------------------------
(* The bandwidth loop, lines 458-506 *)

\* The loop goes to the next server, or ends and the function returns.
NextServer(c) ==
  /\ testIdx' = testIdx + 1
  /\ IF testIdx < Len(sortedServers)
       THEN Issue({ c }, downloadCalls(testIdx + 1)) /\ pc' = pc
       ELSE Issue({ c }, {}) /\ pc' = "done"

\* testDownload returns: a zero speed skips the server, otherwise the upload
\* is issued.
DownloadDone ==
  /\ pc = "bandwidth"
  /\ \E c \in inFlight : \E out \in env.download :
       /\ c.kind = "download"
       /\ LET download == testDownload(out)
          IN /\ downloads' = Append(downloads, download)
             /\ IF downloadFailed(download)
                  THEN NextServer(c)
                  ELSE /\ Issue({ c }, uploadCalls(testIdx))
                       /\ UNCHANGED << pc, testIdx >>
  /\ UNCHANGED << execVars, apiVars, maxServers, env, ipInfo, ipLog, result, fetchVars, probeVars,
                  selectVars, sortedServers, uploads >>

\* testUpload returns: the result is pushed, then printed; the print throws on
\* a result without a server label and runNetworkBenchmark rejects.
UploadDone ==
  /\ pc = "bandwidth"
  /\ \E c \in inFlight : \E out \in env.upload :
       /\ c.kind = "upload"
       /\ LET testResult == makeTestResult(sortedServers[testIdx],
                                           downloads[testIdx], testUpload(out))
          IN /\ result' = [ result EXCEPT !.tests = pushTest(@, testResult) ]
             /\ uploads' = Append(uploads, logged(c, out))
             /\ IF printThrows(testResult)
                  THEN /\ pc' = "threw"
                       /\ Issue({ c }, {})
                       /\ UNCHANGED testIdx
                  ELSE NextServer(c)
  /\ UNCHANGED << execVars, apiVars, maxServers, env, ipInfo, ipLog, fetchVars, probeVars, selectVars,
                  sortedServers, downloads >>

---------------------------------------------------------------------------

Next ==
  \/ IpExecDone
  \/ QueryDone
  \/ MergeBatch
  \/ ProbeExecDone
  \/ CoveragePass
  \/ RoundRobinSweep
  \/ BackfillPass
  \/ FinalPass
  \/ SortServers
  \/ DownloadDone
  \/ UploadDone

\* Probe outcomes of every kind on the full candidate list, and failing
\* directory queries with failing probes, for every maxServers up to the bound
Spec == Init /\ [][Next]_vars

---------------------------------------------------------------------------
(* execWithTimeout, src/src/utils/exec.ts lines 17-28.  Time is counted    *)
(* in milliseconds; a timer or a command that is due acts before the time  *)
(* moves on.                                                               *)

networkVars ==
  << maxServers, env, pc, inFlight, issued, ipInfo, ipLog, result, fetchVars, probeVars,
     selectVars, testVars >>

\* const controller = new AbortController(); const timeout = setTimeout(...);
\* and the command is started.  The environment fixes how long the command
\* runs and whether it exits with success.
execWithTimeout ==
  /\ timedCall.status = "none"
  /\ \E timeoutMs \in 1..MaxTimeout, duration \in 1..MaxDuration,
        exitOk \in BOOLEAN :
       timedCall' = [ status     |-> "running",
                      deadline   |-> now + timeoutMs,
                      exitsAt    |-> now + duration,
                      exitOk     |-> exitOk,
                      timerArmed |-> TRUE,
                      aborted    |-> FALSE,
                      returned   |-> Undefined,
                      returnedAt |-> 0 ]
  /\ UNCHANGED << now, networkVars, apiVars >>

\* The timer's callback: controller.abort().  The controller's signal was
\* given to nothing, so only the controller changes.
TimerFires ==
  /\ timedCall.status # "none"
  /\ timedCall.timerArmed
  /\ now = timedCall.deadline
  /\ timedCall' = [ timedCall EXCEPT !.timerArmed = FALSE, !.aborted = TRUE ]
  /\ UNCHANGED << now, networkVars, apiVars >>

\* The awaited command ends: on success the timer is cleared and the trimmed
\* output returned; on failure the catch returns '' and the timer stays.
CommandExits ==
  /\ timedCall.status = "running"
  /\ now = timedCall.exitsAt
  /\ timedCall' =
       IF timedCall.exitOk
         THEN [ timedCall EXCEPT !.status = "returned", !.timerArmed = FALSE,
                                 !.returned = "output", !.returnedAt = now ]
         ELSE [ timedCall EXCEPT !.status = "returned", !.returned = "",
                                 !.returnedAt = now ]
  /\ UNCHANGED << now, networkVars, apiVars >>

\* A millisecond passes, once everything due has acted.
Tick ==
  /\ timedCall.status # "none"
  /\ now < MaxTimeout + MaxDuration
  /\ ~(timedCall.timerArmed /\ now = timedCall.deadline)
  /\ ~(timedCall.status = "running" /\ now = timedCall.exitsAt)
  /\ now' = now + 1
  /\ UNCHANGED << timedCall, networkVars, apiVars >>

NextExec ==
  \/ execWithTimeout
  \/ TimerFires
  \/ CommandExits
  \/ Tick

\* No benchmark is running
noBenchmark ==
  /\ maxServers = 1
  /\ env = ProbeEnv
  /\ pc = "idle"
  /\ inFlight = {}
  /\ issued = {}
  /\ ipInfo = unknownIp
  /\ ipLog = << >>
  /\ result = [ publicIp |-> "Unknown", provider |-> "Unknown",
                location |-> "Unknown", tests |-> << >> ]
  /\ batchStart = 0
  /\ batchResults = [ k \in 1..Len(SEARCH_REGIONS) |-> << >> ]
  /\ servers = << >>
  /\ seenIds = {}
  /\ completionOrder = << >>
  /\ serversToTest = << >>
  /\ probeIdx = 0
  /\ serverLatencies = << >>
  /\ failedServers = << >>
  /\ probeLog = << >>
  /\ selectedServers = << >>
  /\ selectedIds = {}
  /\ regionServerCount = [ g \in Range(regionOrder) |-> 0 ]
  /\ addedInPass = FALSE
  /\ sortedServers = << >>
  /\ testIdx = 0
  /\ downloads = << >>
  /\ uploads = << >>

\* execWithTimeout is about to be called.
InitExec ==
  /\ noBenchmark
  /\ now = 0
  /\ timedCall = noCall
  /\ InitApi({ generalLimit })

SpecExec == InitExec /\ [][NextExec]_vars

\* IP lookup and directory outcomes of every kind
InitDiscovery == InitWith(DiscoveryEnv, { 3 })
SpecDiscovery == InitDiscovery /\ [][Next]_vars

\* Download and upload outcomes of every kind
InitBandwidth == InitWith(BandwidthEnv, 1..MaxServersBound)
SpecBandwidth == InitBandwidth /\ [][Next]_vars

\* Probe outcomes of every kind, for a small and the largest maxServers
InitProbe == InitWith(ProbeEnv, { 3, MaxServersBound })
SpecProbe == InitProbe /\ [][Next]_vars

\* Directory entries without a label
InitMalformed == InitWith(MalformedEnv, { 3 })
SpecMalformed == InitMalformed /\ [][Next]_vars

---------------------------------------------------------------------------
(* The API server.  A request handler runs to its first await that leaves  *)
(* the process; the interval's callback and the handlers interleave in     *)
(* any order at one time, and the interval fires before the time moves on  *)
(* by its period.                                                          *)

\* A request of the client reaches the limiter, lines 34-84
RateLimitRequest ==
  /\ LET r == rateLimit(rateLimitStore, options, dateNow)
     IN /\ rateLimitStore' = r.store
        /\ rateLimitLog' =
             [ status |-> r.status,
               blockedAt |-> IF r.blocking THEN dateNow ELSE rateLimitLog.blockedAt ]
  /\ UNCHANGED << dateNow, swept, options, loginAttemptStore, adminPending,
                  adminLog, networkVars, execVars >>

\* The interval of lines 14-22 fires
CleanupEntries ==
  /\ ~swept
  /\ swept' = TRUE
  /\ rateLimitStore' = cleanupEntries(rateLimitStore, dateNow)
  /\ UNCHANGED << dateNow, options, rateLimitLog, loginAttemptStore,
                  adminPending, adminLog, networkVars, execVars >>

\* Time moves on by the interval's period
ClockAdvance ==
  /\ swept
  /\ dateNow < MaxClock * cleanupInterval
  /\ dateNow' = dateNow + cleanupInterval
  /\ swept' = FALSE
  /\ UNCHANGED << options, rateLimitStore, rateLimitLog, loginAttemptStore,
                  adminPending, adminLog, networkVars, execVars >>

\* adminAuth up to `await getAdminKey()`: a locked-out client is answered
\* 429, any other request waits for the database.
AdminAuthEnter(apiKey) ==
  /\ IF isIPLockedOut(loginAttemptStore, clientIp, dateNow)
       THEN /\ adminLog' = [ adminLog EXCEPT !.status = "429" ]
            /\ UNCHANGED adminPending
       ELSE /\ pendingCount(adminPending) < MaxPending
            /\ adminPending' = [ adminPending EXCEPT ![apiKey] = @ + 1 ]
            /\ UNCHANGED adminLog
  /\ UNCHANGED << dateNow, swept, options, rateLimitStore, rateLimitLog,
                  loginAttemptStore, networkVars, execVars >>

\* adminAuth after `await getAdminKey()`: a wrong key is tracked and answered
\* 401; the right key clears the attempts and the request is passed on.
\* The history counts the failures of the window that starts at the first
\* failure, and remembers the time of a window's fifth failure.
AdminAuthResume(apiKey) ==
  /\ adminPending[apiKey] > 0
  /\ adminPending' = [ adminPending EXCEPT ![apiKey] = @ - 1 ]
  /\ IF apiKey # currentKey
       THEN /\ loginAttemptStore' =
                 trackFailedLogin(loginAttemptStore, clientIp, dateNow)
            /\ LET fresh == ~(/\ adminLog.failures > 0
                               /\ dateNow - adminLog.windowStart <= LOGIN_WINDOW)
                   n == IF fresh THEN 1 ELSE adminLog.failures + 1
               IN adminLog' =
                    [ status |-> "401",
                      windowStart |-> IF fresh THEN dateNow ELSE adminLog.windowStart,
                      failures |-> n,
                      fifthFailure |-> IF n = MAX_LOGIN_ATTEMPTS THEN dateNow
                                       ELSE adminLog.fifthFailure ]
       ELSE /\ loginAttemptStore' = clearLoginAttempts(loginAttemptStore, clientIp)
            /\ adminLog' = [ adminLog EXCEPT !.status = "next", !.failures = 0,
                                             !.windowStart = -1 ]
  /\ UNCHANGED << dateNow, swept, options, rateLimitStore, rateLimitLog,
                  networkVars, execVars >>

NextRateLimit ==
  \/ RateLimitRequest
  \/ CleanupEntries
  \/ ClockAdvance

NextAdminAuth ==
  \/ \E apiKey \in sentKeys : AdminAuthEnter(apiKey)
  \/ \E apiKey \in sentKeys : AdminAuthResume(apiKey)
  \/ CleanupEntries
  \/ ClockAdvance

\* Each of the server's limiters, for one client
InitRateLimit ==
  /\ noBenchmark
  /\ now = 0
  /\ timedCall = noCall
  /\ InitApi({ generalLimit, adminLimit, uploadLimit })

SpecRateLimit == InitRateLimit /\ [][NextRateLimit]_vars

\* The admin routes, for one client
InitAdminAuth ==
  /\ noBenchmark
  /\ now = 0
  /\ timedCall = noCall
  /\ InitApi({ adminLimit })

SpecAdminAuth == InitAdminAuth /\ [][NextAdminAuth]_vars

---------------------------------------------------------------------------
(* Notions the properties share *)

groupOf(entry) == getRegionFromCountry(entry.server.country)

\* How many entries of a selection belong to a group
countIn(list, group) ==
  Cardinality({ i \in DOMAIN list : groupOf(list[i]) = group })

\* The groups with a discovered candidate
discoveredGroups == { getRegionFromCountry(s.country) : s \in Range(servers) }

\* fetchSpeedtestServers has returned
FetchDone == pc \notin { "ip", "fetch" }

\* All probes are done and the successful ones sorted
ProbesDone == FetchDone /\ probeIdx > Len(serversToTest)

\* The presentation order has been computed
SelectionDone == pc \in { "bandwidth", "done", "threw" } /\ probeIdx > 0

\* Candidates that can be selected at all: every successful probe, and one
\* failed candidate for each priority group without a successful probe
eligibleCount ==
  Len(serverLatencies) +
  Cardinality({ g \in Range(regionOrder) :
                  /\ Len(regionGroup(serverLatencies, g)) = 0
                  /\ \E i \in DOMAIN failedServers :
                       getRegionFromCountry(failedServers[i].country) = g })

\* (group priority, country, latency), compared lexicographically
notAfter(a, b) ==
  LET pa == regionIndexOf(groupOf(a))
      pb == regionIndexOf(groupOf(b))
      ca == countryRank[a.server.country]
      cb == countryRank[b.server.country]
  IN \/ pa < pb
     \/ pa = pb /\ ca < cb
     \/ pa = pb /\ ca = cb /\ a.latency <= b.latency

---------------------------------------------------------------------------
(* C1  The list of servers selected for bandwidth testing never has more   *)
(* than maxServers entries, and no test is issued for a position beyond    *)
(* maxServers.                                                             *)

C1_SizeBound ==
  /\ Len(sortedServers) <= maxServers
  /\ Len(downloads) <= maxServers
  /\ \A c \in inFlight : c.kind \in { "download", "upload" } => c.arg <= maxServers

\* A run whose passes selected more than maxServers and whose list was cut
C1_Witness ==
  /\ pc = "done" /\ SelectionDone
  /\ Len(selectedServers) > maxServers
  /\ Len(sortedServers) = maxServers
  /\ Len(downloads) = maxServers

---------------------------------------------------------------------------
(* C2  Every geographic group with a discovered candidate, "Other"         *)
(* included, has a server in the final list when maxServers is at least    *)
(* the number of such groups.  Stated as claimed; the code never covers    *)
(* "Other" in the first pass.                                              *)

C2_Coverage ==
  (SelectionDone /\ maxServers >= Cardinality(discoveredGroups))
    => \A g \in discoveredGroups :
         \E i \in DOMAIN sortedServers : groupOf(sortedServers[i]) = g

---------------------------------------------------------------------------
(* C3  As claimed: whenever at least maxServers candidates were            *)
(* discovered, the final list has exactly maxServers entries.              *)

C3_Original ==
  (SelectionDone /\ Len(servers) >= maxServers)
    => Len(sortedServers) = maxServers

(* C3  As amended: whenever the successful probes, plus one for each       *)
(* priority group whose probed candidates all failed, number at least      *)
(* maxServers, the final list has exactly maxServers entries.              *)

C3_FullWhenEligible ==
  (SelectionDone /\ eligibleCount >= maxServers)
    => Len(sortedServers) = maxServers

\* A full list that needed a failed candidate's placeholder and the final
\* pass's pick from "Other", with an unprobed candidate left out
C3_Witness ==
  /\ pc = "done" /\ SelectionDone
  /\ eligibleCount = maxServers
  /\ Len(sortedServers) = maxServers
  /\ Len(servers) > Len(serversToTest)
  /\ \E i \in DOMAIN sortedServers : sortedServers[i].latency = failedLatency
  /\ \E i \in DOMAIN sortedServers : groupOf(sortedServers[i]) = "Other"

---------------------------------------------------------------------------
(* C4  After the coverage, round-robin and capped-backfill passes, before  *)
(* the final pass adds anything, no group has more than                    *)
(* min(4, ceil(maxServers / availableGroups) + 1) servers in the           *)
(* selection (4 when no priority group has a successful probe, as the      *)
(* division by zero gives Infinity).                                       *)

C4_CapBeforeFinal ==
  pc \in { "roundrobin", "backfill", "final" } =>
    LET n == Cardinality({ g \in Range(regionOrder) :
                             \E i \in DOMAIN serverLatencies :
                               groupOf(serverLatencies[i]) = g })
        cap == IF n = 0 THEN 4
               ELSE Min(4, (maxServers + n - 1) \div n + 1)
    IN \A g \in allGroups : countIn(selectedServers, g) <= cap

\* The three capped passes are over and a group stands exactly at the cap
C4_Witness ==
  /\ pc = "final"
  /\ \E g \in Range(regionOrder) :
       /\ countIn(selectedServers, g) = maxPerRegion(serverLatencies, maxServers)
       /\ countIn(selectedServers, g) >= 3
  /\ Len(selectedServers) > Cardinality(availableRegions(serverLatencies))

---------------------------------------------------------------------------
(* C5  The candidate list returned by fetchSpeedtestServers holds each     *)
(* server ID returned by some query exactly once, whether the queries      *)
(* that return it are in the same batch or in different batches.           *)

returnedIds ==
  UNION { { batchResults[k][j].id : j \in DOMAIN batchResults[k] } :
          k \in DOMAIN batchResults }

C5_Dedup ==
  /\ \A i, j \in DOMAIN servers : i # j => servers[i].id # servers[j].id
  /\ FetchDone => { servers[i].id : i \in DOMAIN servers } = returnedIds

\* The same ID came from two regions of the first batch, and another from a
\* region of the first batch and one of the second
C5_Witness ==
  /\ FetchDone
  /\ \E k1, k2 \in DOMAIN batchResults :
       /\ k1 < k2 /\ k2 <= batchSize
       /\ \E a \in DOMAIN batchResults[k1], b \in DOMAIN batchResults[k2] :
            batchResults[k1][a].id = batchResults[k2][b].id
  /\ \E k1, k2 \in DOMAIN batchResults :
       /\ k1 <= batchSize /\ k2 > batchSize
       /\ \E a \in DOMAIN batchResults[k1], b \in DOMAIN batchResults[k2] :
            batchResults[k1][a].id = batchResults[k2][b].id

---------------------------------------------------------------------------
(* C6  A tested server whose download measurement yields 0 never appears   *)
(* in the tests list of the result.                                        *)

C6_FailedDownloadExcluded ==
  \A i \in DOMAIN downloads :
    downloads[i].speed = 0 =>
      \A t \in DOMAIN result.tests :
        result.tests[t].server # serverLabel(sortedServers[i].server)

\* A finished run in which a download failed and a later server was recorded
C6_Witness ==
  /\ pc = "done"
  /\ \E i, j \in DOMAIN downloads :
       /\ i < j
       /\ downloads[i].speed = 0
       /\ downloads[j].speed > 0
       /\ \E t \in DOMAIN result.tests :
            result.tests[t].server = serverLabel(sortedServers[j].server)

---------------------------------------------------------------------------
(* C7  runNetworkBenchmark never throws or rejects, whatever the external  *)
(* commands print.  Stated as claimed; the print after the push throws on  *)
(* a directory entry that has neither sponsor nor name.                    *)

C7_NeverThrows == pc # "threw"

---------------------------------------------------------------------------
(* C8  If every region's directory query yields zero servers, the run      *)
(* ends with tests = [] and the publicIp, provider and location of the IP  *)
(* lookup, and no latency probe or bandwidth test was ever issued.         *)

C8_TotalFailure ==
  (FetchDone /\ \A k \in DOMAIN batchResults : Len(batchResults[k]) = 0)
    => /\ pc = "done"
       /\ inFlight = {}
       /\ result.tests = << >>
       /\ result.publicIp = ipInfo.ip
       /\ result.provider = ipInfo.provider
       /\ result.location = ipInfo.location
       /\ issued \cap { "ping", "http", "download", "upload" } = {}

\* Total discovery failure after an IP lookup that found address and provider
C8_Witness ==
  /\ pc = "done"
  /\ \A k \in DOMAIN batchResults : Len(batchResults[k]) = 0
  /\ result.publicIp = "203.0.113.7"
  /\ result.provider # "Unknown"
  /\ result.tests = << >>

---------------------------------------------------------------------------
(* C9  The servers are bandwidth-tested in the order of sortedServers, and *)
(* any two consecutive servers of it are in (group priority, country,      *)
(* latency) order; a group outside the priority list has index -1.         *)

C9_TestOrder ==
  /\ \A i \in 1..(Len(sortedServers) - 1) :
       notAfter(sortedServers[i], sortedServers[i + 1])
  /\ \A c \in inFlight : c.kind = "download" => c.arg = Len(downloads) + 1

\* A finished run whose sort reordered the selection, with neighbours that
\* differ only in latency, only from the country on, and in the group
C9_Witness ==
  /\ pc = "done" /\ SelectionDone
  /\ sortedServers # finalServers(selectedServers, maxServers)
  /\ Len(downloads) = Len(sortedServers)
  /\ \E i \in 1..(Len(sortedServers) - 1) :
       /\ sortedServers[i].server.country = sortedServers[i + 1].server.country
       /\ sortedServers[i].latency < sortedServers[i + 1].latency
  /\ \E i \in 1..(Len(sortedServers) - 1) :
       /\ groupOf(sortedServers[i]) = groupOf(sortedServers[i + 1])
       /\ sortedServers[i].server.country # sortedServers[i + 1].server.country
  /\ \E i \in 1..(Len(sortedServers) - 1) :
       groupOf(sortedServers[i]) # groupOf(sortedServers[i + 1])

---------------------------------------------------------------------------
(* C10  Outside the discovery stage at most one external command is in     *)
(* flight; a probe in flight is the one of the loop's current candidate;   *)
(* an upload is in flight only after its server's download has completed,  *)
(* and a download only after all tests of the earlier servers have         *)
(* completed and been recorded.                                            *)

C10_OneInFlight ==
  /\ pc # "fetch" => Cardinality(inFlight) <= 1
  /\ \A c \in inFlight :
       /\ c.kind \in { "ping", "http" } =>
            /\ c.arg = serversToTest[probeIdx].id
            /\ Len(serverLatencies) + Len(failedServers) = probeIdx - 1
       /\ c.kind = "upload" =>
            /\ Len(downloads) = c.arg
            /\ downloads[c.arg].speed > 0
       /\ c.kind = "download" =>
            /\ Len(downloads) = c.arg - 1
            /\ Len(result.tests) =
                 Cardinality({ i \in DOMAIN downloads : downloads[i].speed > 0 })

\* The upload of a later server is in flight, after probes that fell back
\* to the HTTP connect time
C10_Witness ==
  /\ pc = "bandwidth"
  /\ "http" \in issued
  /\ \E c \in inFlight : c.kind = "upload" /\ c.arg >= 2

---------------------------------------------------------------------------
(* C11  The tests list grows by appending only: it holds, in presentation  *)
(* order, exactly one result for each server whose download succeeded and  *)
(* whose upload has completed, so a server's result is there before the    *)
(* next server's download is issued; a step either leaves the list alone   *)
(* or appends one result to it.                                            *)

\* The positions in sortedServers of the servers whose tests are complete
testedPositions ==
  { i \in DOMAIN downloads :
      downloads[i].speed > 0 /\ Call("upload", i) \notin inFlight }

\* The t-th smallest of a set of positions
nthOf(positions, t) ==
  CHOOSE i \in positions :
    Cardinality({ j \in positions : j < i }) = t - 1

C11_TestsInOrder ==
  /\ []( /\ Len(result.tests) = Cardinality(testedPositions)
         /\ \A t \in DOMAIN result.tests :
              result.tests[t].server =
                serverLabel(sortedServers[nthOf(testedPositions, t)].server) )
  /\ [][ \/ result.tests' = result.tests
         \/ /\ Len(result.tests') = Len(result.tests) + 1
            /\ SubSeq(result.tests', 1, Len(result.tests)) = result.tests
            /\ \E c \in inFlight : c.kind = "upload" /\ c \notin inFlight' ]_vars

\* A finished run with results on both sides of a server that was skipped
C11_Witness ==
  /\ pc = "done"
  /\ Len(result.tests) >= 2
  /\ \E i, j, k \in DOMAIN downloads :
       /\ i < j /\ j < k
       /\ downloads[i].speed > 0 /\ downloads[j].speed = 0 /\ downloads[k].speed > 0

---------------------------------------------------------------------------
(* C12  The candidate list, the selection and the test order are functions *)
(* of the directory responses, the probe results and maxServers alone:     *)
(* the candidates are the servers of the merged regions in the order of    *)
(* the region list, each ID once with the record of the earliest region    *)
(* that returned it, whatever order the queries completed in; the          *)
(* successful probes, the selection and the presentation order are the     *)
(* values computed from them.                                              *)

\* The regions whose responses have been merged
mergedRegions ==
  IF pc = "ip" THEN {}
  ELSE IF pc = "fetch" THEN 1..batchStart
  ELSE 1..Len(SEARCH_REGIONS)

idsOf(list) == { list[j].id : j \in DOMAIN list }

\* The earliest of the regions that returned an ID, `returned` giving the IDs
\* each region returned, and the ID's place in a region's list
firstRegion(returned, id) ==
  CHOOSE k \in DOMAIN returned :
    id \in returned[k] /\ \A m \in 1..(k - 1) : id \notin returned[m]

placeIn(list, id) == CHOOSE j \in DOMAIN list : list[j].id = id

\* What testLatency returned for a candidate, from the outputs of its probes
probedLatency(server) ==
  LET mine == SelectSeq(probeLog, LAMBDA e : e.arg = server.id)
      last == mine[Len(mine)]
  IN IF last.kind = "ping" THEN parseFloat(last.out).value
     ELSE httpLatency(last.out)

successfulProbes ==
  LET probed == SelectSeq(serversToTest, LAMBDA sv : probedLatency(sv) > 0)
  IN [ i \in DOMAIN probed |->
         [ server |-> probed[i], latency |-> probedLatency(probed[i]) ] ]

\* The while loop of the second pass
RECURSIVE roundRobin(_, _, _, _)
roundRobin(st, sl, max, cap) ==
  IF st.added /\ Len(st.sel) < max
    THEN roundRobin(sweepFrom([ st EXCEPT !.added = FALSE ], 1, sl, max, cap),
                    sl, max, cap)
    ELSE st

\* The four passes as one function of the probe results
selectionOf(sl, failed, max) ==
  LET empty == [ sel |-> << >>, ids |-> {},
                 cnt |-> [ g \in Range(regionOrder) |-> 0 ], added |-> TRUE ]
      cap == maxPerRegion(sl, max)
      first == [ coverageFrom(empty, 1, sl, failed) EXCEPT !.added = TRUE ]
      second == roundRobin(first, sl, max, cap)
      third == backfillFrom(second, 1, sl, max, cap)
  IN finalFrom(third, 1, sl, max).sel

C12_Deterministic ==
  LET returned == [ k \in mergedRegions |-> idsOf(batchResults[k]) ]
      region == [ i \in DOMAIN servers |-> firstRegion(returned, servers[i].id) ]
      place == [ i \in DOMAIN servers |->
                   placeIn(batchResults[region[i]], servers[i].id) ]
  IN /\ idsOf(servers) = UNION { returned[k] : k \in mergedRegions }
     /\ \A i \in DOMAIN servers :
          /\ servers[i].region = SEARCH_REGIONS[region[i]]
          /\ servers[i] = batchResults[region[i]][place[i]]
     /\ \A i \in 1..(Len(servers) - 1) :
          \/ region[i] < region[i + 1]
          \/ region[i] = region[i + 1] /\ place[i] < place[i + 1]
     /\ SelectionDone =>
          /\ serversToTest = preSelect(servers)
          /\ serverLatencies = sortByLatency(successfulProbes)
          /\ selectedServers =
               selectionOf(serverLatencies, failedServers, maxServers)
          /\ sortedServers = sortServers(finalServers(selectedServers, maxServers))

\* The first batch has been merged; its second region completed before its
\* first, both returned the same ID, and the first region's record was kept
C12_Witness ==
  /\ pc = "fetch"
  /\ batchStart = batchSize
  /\ Len(completionOrder) = batchSize
  /\ \E a, b \in DOMAIN completionOrder :
       /\ a < b
       /\ completionOrder[a] = 2 /\ completionOrder[b] = 1
  /\ idsOf(batchResults[1]) \cap idsOf(batchResults[2]) # {}
  /\ \E i \in DOMAIN servers :
       /\ servers[i].id \in idsOf(batchResults[1]) \cap idsOf(batchResults[2])
       /\ servers[i].region = SEARCH_REGIONS[1]

---------------------------------------------------------------------------
(* C13  Every server whose upload command has completed, its download      *)
(* having succeeded, has a result in tests with its download rate; the     *)
(* result's upload field is "N/A" exactly when the upload output was       *)
(* empty, unparsable or not positive.                                      *)

C13_UploadNotAvailable ==
  \A n \in DOMAIN uploads :
    LET entry == sortedServers[uploads[n].arg]
        measured == IsPositive(parseFloat(uploads[n].out))
    IN \E t \in DOMAIN result.tests :
         /\ result.tests[t].server = serverLabel(entry.server)
         /\ result.tests[t].download = downloads[uploads[n].arg].mbps
         /\ result.tests[t].download # "N/A"
         /\ measured => result.tests[t].upload # "N/A"
         /\ ~measured => result.tests[t].upload = "N/A"

\* A finished run with an empty and a zero upload output, and a measured one
C13_Witness ==
  /\ pc = "done"
  /\ \E a, b, c \in DOMAIN uploads :
       uploads[a].out = "" /\ uploads[b].out = "0" /\ uploads[c].out = "625000"
  /\ \E t \in DOMAIN result.tests :
       result.tests[t].upload = "N/A" /\ result.tests[t].download = "10 Mbps"

---------------------------------------------------------------------------
(* C14  execWithTimeout enforces its timeout: once timeoutMs has elapsed   *)
(* the call has returned, and a call whose command was still running at    *)
(* that time returned the empty string at that time.  Stated as claimed;   *)
(* the abort signal is given to nothing and the call waits for the         *)
(* command.                                                                *)

C14_TimeoutEnforced ==
  timedCall.status # "none" =>
    /\ now > timedCall.deadline => timedCall.status = "returned"
    /\ (timedCall.status = "returned" /\ timedCall.exitsAt > timedCall.deadline)
         => /\ timedCall.returned = ""
            /\ timedCall.returnedAt = timedCall.deadline

---------------------------------------------------------------------------
(* C15  During discovery at most 5 directory queries are in flight, all of *)
(* the current batch, and queries are started only when no query is in     *)
(* flight, that is, when every query of the preceding batch has completed. *)

queriesInFlight == { c \in inFlight : c.kind = "query" }

C15_BatchedQueries ==
  /\ []( /\ Cardinality(queriesInFlight) <= 5
         /\ \A c \in queriesInFlight :
              batchStart < c.arg /\ c.arg <= batchStart + 5 )
  /\ [][ (\E c \in inFlight' \ inFlight : c.kind = "query")
           => queriesInFlight = {} ]_vars

\* The second batch is in flight, whole, after the five queries of the first
\* batch completed and were merged
C15_Witness ==
  /\ pc = "fetch"
  /\ batchStart = 5
  /\ Len(completionOrder) = 5
  /\ Len(servers) > 0
  /\ queriesInFlight = { Call("query", k) : k \in 6..Len(SEARCH_REGIONS) }
  /\ queriesInFlight # {}

---------------------------------------------------------------------------
(* C16  A directory query that fails (empty, unparsable or non-list        *)
(* output) yields no server and disturbs nothing: the step in which it     *)
(* completes leaves the candidates, the other regions' results and the     *)
(* other queries in flight as they were; when discovery is over every      *)
(* batch has been queried and every server some query returned is a        *)
(* candidate.                                                              *)

C16_FailedQueryIsolated ==
  /\ []( \A kind \in { "empty", "garbage", "object" } :
           \A k \in DOMAIN SEARCH_REGIONS :
             parseServers(DirectoryOutput(kind, k), SEARCH_REGIONS[k]) = << >> )
  /\ []( FetchDone =>
           /\ batchStart + 5 >= Len(SEARCH_REGIONS)
           /\ \A k \in DOMAIN batchResults :
                \A j \in DOMAIN batchResults[k] :
                  \E i \in DOMAIN servers : servers[i].id = batchResults[k][j].id )
  /\ [][ \A c \in queriesInFlight :
           (c \notin inFlight' /\ batchResults'[c.arg] = << >>)
             => /\ batchResults' = batchResults
                /\ servers' = servers
                /\ inFlight' = inFlight \ { c }
                /\ pc' = pc ]_vars

\* Discovery is over; in each batch a region failed and a later region of the
\* batch returned servers, all of which are candidates
C16_Witness ==
  /\ FetchDone
  /\ \E k1, k2 \in 1..5 :
       k1 < k2 /\ Len(batchResults[k1]) = 0 /\ Len(batchResults[k2]) > 0
  /\ \E k1, k2 \in 6..Len(SEARCH_REGIONS) :
       k1 < k2 /\ Len(batchResults[k1]) = 0 /\ Len(batchResults[k2]) > 0
  /\ \A k \in DOMAIN batchResults :
       \A j \in DOMAIN batchResults[k] :
         \E i \in DOMAIN servers : servers[i].id = batchResults[k][j].id

---------------------------------------------------------------------------
(* C17  The candidates probed are exactly those with fewer than 3 earlier  *)
(* candidates of their own group in discovery order, so at most 3 per      *)
(* group; no probe command is issued for another candidate and no other    *)
(* candidate is selected or tested.                                        *)

\* The positions in servers of the first 3 candidates of each group
firstThree ==
  SelectSeq([ i \in DOMAIN servers |-> i ],
            LAMBDA i : Cardinality({ j \in 1..(i - 1) :
                         getRegionFromCountry(servers[j].country)
                           = getRegionFromCountry(servers[i].country) }) < 3)

C17_ProbeFirstThree ==
  FetchDone =>
    /\ serversToTest = [ n \in DOMAIN firstThree |-> servers[firstThree[n]] ]
    /\ \A c \in inFlight :
         c.kind \in { "ping", "http" } => c.arg \in idsOf(serversToTest)
    /\ \A n \in DOMAIN probeLog : probeLog[n].arg \in idsOf(serversToTest)
    /\ \A n \in DOMAIN selectedServers :
         selectedServers[n].server \in Range(serversToTest)
    /\ \A n \in DOMAIN sortedServers :
         sortedServers[n].server \in Range(serversToTest)

\* A finished run that left a fourth candidate of a group unprobed and
\* unselected although the selection had room
C17_Witness ==
  /\ pc = "done"
  /\ Len(servers) > Len(serversToTest)
  /\ Len(sortedServers) > 0
  /\ Len(sortedServers) < maxServers
  /\ \E g \in allGroups :
       Cardinality({ i \in DOMAIN serversToTest :
                       getRegionFromCountry(serversToTest[i].country) = g }) = 3

---------------------------------------------------------------------------
(* C18  The HTTP probe of a candidate runs only right after the            *)
(* candidate's own ICMP probe gave no positive value; a candidate whose    *)
(* HTTP probe then gives a positive connect time is a successful probe     *)
(* with 1000 times that value as latency, is not a failed candidate, and   *)
(* is the coverage pass's pick for its priority group when it is the       *)
(* group's best successful probe.                                          *)

\* The successful probes that came from the HTTP fallback
viaHttp(entry) ==
  \E n \in DOMAIN probeLog :
    /\ probeLog[n].kind = "http"
    /\ probeLog[n].arg = entry.server.id
    /\ IsPositive(parseFloat(probeLog[n].out))

\* The passes have started
CoverageDone == ProbesDone /\ pc # "coverage"

C18_HttpFallback ==
  /\ \A n \in DOMAIN probeLog :
       probeLog[n].kind = "http" =>
         /\ n > 1
         /\ probeLog[n - 1].kind = "ping"
         /\ probeLog[n - 1].arg = probeLog[n].arg
         /\ ~IsPositive(parseFloat(probeLog[n - 1].out))
  /\ \A c \in inFlight :
       c.kind = "http" =>
         /\ Len(probeLog) > 0
         /\ probeLog[Len(probeLog)] \in
              { [ kind |-> "ping", arg |-> c.arg, out |-> o ] : o \in env.ping }
         /\ ~IsPositive(parseFloat(probeLog[Len(probeLog)].out))
  /\ \A n \in DOMAIN probeLog :
       (probeLog[n].kind = "http" /\ IsPositive(parseFloat(probeLog[n].out))) =>
         /\ \E i \in DOMAIN serverLatencies :
              /\ serverLatencies[i].server.id = probeLog[n].arg
              /\ serverLatencies[i].latency
                   = 1000 * parseFloat(probeLog[n].out).value
         /\ \A i \in DOMAIN failedServers : failedServers[i].id # probeLog[n].arg
  /\ CoverageDone =>
       \A i \in DOMAIN serverLatencies :
         ( /\ viaHttp(serverLatencies[i])
           /\ groupOf(serverLatencies[i]) \in Range(regionOrder)
           /\ \A j \in 1..(i - 1) :
                groupOf(serverLatencies[j]) # groupOf(serverLatencies[i]) )
           => \E n \in DOMAIN selectedServers :
                selectedServers[n] = serverLatencies[i]

\* A finished run in which a group was covered by a candidate that answered
\* only over HTTP, next to a candidate that answered the ICMP probe
C18_Witness ==
  /\ pc = "done" /\ SelectionDone
  /\ \E n \in DOMAIN sortedServers :
       /\ viaHttp(sortedServers[n])
       /\ sortedServers[n].latency = 1000
       /\ \A i \in DOMAIN serverLatencies :
            groupOf(serverLatencies[i]) = groupOf(sortedServers[n])
              => viaHttp(serverLatencies[i])
  /\ \E n \in DOMAIN sortedServers : sortedServers[n].latency = 10
  /\ Len(failedServers) > 0

---------------------------------------------------------------------------
(* C19  The coverage pass selects exactly one server for each group of the *)
(* priority list that has a probed candidate, in priority order: a         *)
(* successful probe of the group with no lower latency in the group, or,   *)
(* the group having no successful probe, its first failed candidate in     *)
(* probe order with latency 999.  A failed candidate is never selected     *)
(* when its group has a successful probe.                                  *)

hasSuccess(g) == \E i \in DOMAIN serverLatencies : groupOf(serverLatencies[i]) = g

failedIn(g) ==
  SelectSeq(failedServers, LAMBDA sv : getRegionFromCountry(sv.country) = g)

\* The priority groups with a probed candidate, in priority order
probedGroups ==
  SelectSeq(regionOrder, LAMBDA g : hasSuccess(g) \/ Len(failedIn(g)) > 0)

\* e is what the coverage pass is to select for group g
coverageChoice(e, g) ==
  IF hasSuccess(g)
    THEN /\ e \in Range(serverLatencies)
         /\ groupOf(e) = g
         /\ \A i \in DOMAIN serverLatencies :
              groupOf(serverLatencies[i]) = g => e.latency <= serverLatencies[i].latency
    ELSE e = [ server |-> Head(failedIn(g)), latency |-> 999 ]

C19_CoveragePass ==
  /\ [][ pc = "coverage" =>
           /\ Len(selectedServers') = Len(probedGroups)
           /\ \A k \in DOMAIN probedGroups :
                coverageChoice(selectedServers'[k], probedGroups[k]) ]_vars
  /\ []( CoverageDone =>
           /\ Len(selectedServers) >= Len(probedGroups)
           /\ \A k \in DOMAIN probedGroups :
                coverageChoice(selectedServers[k], probedGroups[k])
           /\ \A n \in DOMAIN selectedServers :
                selectedServers[n].server \in Range(failedServers) =>
                  /\ ~hasSuccess(groupOf(selectedServers[n]))
                  /\ selectedServers[n].latency = 999 )

\* The passes are over: one group was covered by the better of two successful
\* probes, with a failed candidate of the group left out, and another by the
\* first of two failed candidates
C19_Witness ==
  /\ pc = "done" /\ SelectionDone
  /\ \E k \in DOMAIN probedGroups :
       /\ hasSuccess(probedGroups[k])
       /\ Len(failedIn(probedGroups[k])) > 0
       /\ \E i \in DOMAIN serverLatencies :
            /\ groupOf(serverLatencies[i]) = probedGroups[k]
            /\ serverLatencies[i].latency > selectedServers[k].latency
  /\ \E k \in DOMAIN probedGroups :
       /\ ~hasSuccess(probedGroups[k])
       /\ Len(failedIn(probedGroups[k])) = 2
       /\ selectedServers[k].latency = 999
       /\ selectedServers[k].server = failedIn(probedGroups[k])[1]

---------------------------------------------------------------------------
(* C20  In selection order no group receives a second server while a group *)
(* with a discovered candidate has none.  Stated as claimed; a group       *)
(* outside the priority list is served only by the final pass, after the   *)
(* round-robin pass has given other groups their second server.            *)

C20_FirstBeforeSecond ==
  \A n \in DOMAIN selectedServers :
    (\E m \in 1..(n - 1) : groupOf(selectedServers[m]) = groupOf(selectedServers[n]))
      => \A g \in discoveredGroups :
           \E m \in 1..(n - 1) : groupOf(selectedServers[m]) = g

---------------------------------------------------------------------------
(* C21  A sweep of the round-robin fill starts only below maxServers,      *)
(* keeps what is selected and appends, in priority order, at most one      *)
(* server per priority group: a not yet selected successful probe of a     *)
(* group below the cap, with no lower latency among the group's unselected *)
(* ones; a group below the cap with an unselected successful probe is      *)
(* passed over only when maxServers is reached.  The fill ends only when   *)
(* maxServers is reached or every priority group is at the cap or has no   *)
(* unselected successful probe.                                            *)

\* min(4, ceil(maxServers / availableGroups) + 1), 4 without available group
capOfRun ==
  LET n == Cardinality({ g \in Range(regionOrder) : hasSuccess(g) })
  IN IF n = 0 THEN 4 ELSE Min(4, (maxServers + n - 1) \div n + 1)

\* The successful probes of a group not in a selection
unselectedIn(sel, g) ==
  { e \in Range(serverLatencies) :
      groupOf(e) = g /\ \A n \in DOMAIN sel : sel[n].server.id # e.server.id }

\* A group the fill can still add to
fillable(sel, g) == countIn(sel, g) < capOfRun /\ unselectedIn(sel, g) # {}

C21_RoundRobinFill ==
  [][ /\ (pc = "roundrobin" /\ pc' = "roundrobin") =>
           LET old == selectedServers
               new == selectedServers'
               added == SubSeq(new, Len(old) + 1, Len(new))
           IN /\ Len(old) < maxServers
              /\ Len(new) <= maxServers
              /\ SubSeq(new, 1, Len(old)) = old
              /\ \A a \in DOMAIN added :
                   /\ groupOf(added[a]) \in Range(regionOrder)
                   /\ fillable(old, groupOf(added[a]))
                   /\ added[a] \in unselectedIn(old, groupOf(added[a]))
                   /\ \A e \in unselectedIn(old, groupOf(added[a])) :
                        added[a].latency <= e.latency
              /\ \A a, b \in DOMAIN added :
                   a < b => regionIndexOf(groupOf(added[a]))
                              < regionIndexOf(groupOf(added[b]))
              /\ \A g \in Range(regionOrder) :
                   (fillable(old, g) /\ \A a \in DOMAIN added : groupOf(added[a]) # g)
                     => Len(new) = maxServers
      /\ (pc = "roundrobin" /\ pc' = "backfill") =>
           /\ selectedServers' = selectedServers
           /\ \/ Len(selectedServers) >= maxServers
              \/ \A g \in Range(regionOrder) : ~fillable(selectedServers, g) ]_vars

\* The fill has ended below maxServers after sweeps that added to two groups
\* and then to one
C21_Witness ==
  /\ pc = "backfill"
  /\ Len(selectedServers) < maxServers
  /\ Len(selectedServers) >= Len(probedGroups) + 3
  /\ \E g \in Range(regionOrder) : countIn(selectedServers, g) = 3
  /\ \E g \in Range(regionOrder) : countIn(selectedServers, g) = 2

---------------------------------------------------------------------------
(* C22  The IP lookup always returns and discovery follows.  The primary   *)
(* geolocation service is queried only after the echo command printed an   *)
(* IPv4 address, the fallback only after the primary's reply failed to     *)
(* parse.  Without a valid address publicIp, provider and location are     *)
(* "Unknown" and no geolocation call was made; with both services failing  *)
(* provider and location are "Unknown".                                    *)

C22_IpLookup ==
  /\ \A n \in DOMAIN ipLog :
       /\ ipLog[n].kind = "echo" => n = 1
       /\ ipLog[n].kind = "geo" =>
            n = 2 /\ ipLog[1].kind = "echo" /\ ipLog[1].out = "203.0.113.7"
       /\ ipLog[n].kind = "geo2" =>
            n = 3 /\ ipLog[2].kind = "geo" /\ ipLog[2].out = "empty"
  /\ \A c \in inFlight :
       /\ c.kind = "geo" => Len(ipLog) = 1 /\ ipLog[1].out = "203.0.113.7"
       /\ c.kind = "geo2" => Len(ipLog) = 2 /\ ipLog[2].out = "empty"
  /\ pc # "ip" =>
       /\ "query" \in issued
       /\ Len(ipLog) >= 1
       /\ ipLog[1].out # "203.0.113.7" =>
            /\ result.publicIp = "Unknown"
            /\ result.provider = "Unknown"
            /\ result.location = "Unknown"
            /\ issued \cap { "geo", "geo2" } = {}
       /\ ipLog[1].out = "203.0.113.7" =>
            /\ result.publicIp = "203.0.113.7"
            /\ Len(ipLog) >= 2
       /\ (Len(ipLog) = 3 /\ ipLog[3].out = "empty") =>
            /\ result.provider = "Unknown"
            /\ result.location = "Unknown"

\* A run that went on to test servers after the address was found and both
\* geolocation services failed
C22_Witness ==
  /\ pc = "done"
  /\ Len(result.tests) > 0
  /\ Len(ipLog) = 3
  /\ ipLog[3].out = "empty"
  /\ result.publicIp = "203.0.113.7"
  /\ result.provider = "Unknown"

---------------------------------------------------------------------------
(* C23  No server ID occurs twice in the selection, in any pass, nor in    *)
(* the presentation order, and each position of the presentation order is  *)
(* tested at most once.                                                    *)

C23_NoDuplicateSelection ==
  /\ \A m, n \in DOMAIN selectedServers :
       m # n => selectedServers[m].server.id # selectedServers[n].server.id
  /\ \A m, n \in DOMAIN sortedServers :
       m # n => sortedServers[m].server.id # sortedServers[n].server.id
  /\ selectedIds = { selectedServers[n].server.id : n \in DOMAIN selectedServers }
  /\ Len(downloads) <= Len(sortedServers)
  /\ \A c \in inFlight : c.kind = "download" => c.arg > Len(downloads)

\* A finished run whose selection took a placeholder in the coverage pass,
\* sweeps of the round-robin fill and the final pass's pick from "Other"
C23_Witness ==
  /\ pc = "done" /\ SelectionDone
  /\ Len(downloads) = Len(sortedServers)
  /\ Len(selectedServers) > Len(probedGroups) + 1
  /\ \E n \in DOMAIN selectedServers : selectedServers[n].latency = 999
  /\ \E n \in DOMAIN selectedServers : groupOf(selectedServers[n]) = "Other"

---------------------------------------------------------------------------
(* C24  When the round-robin fill has ended, maxServers is reached or      *)
(* every successful probe of every priority group is selected, and the     *)
(* capped backfill pass leaves the selection as it found it.  While the    *)
(* fill has capacity left the cap is at least 3, the most probes a group   *)
(* can have.                                                               *)

C24_BackfillAddsNothing ==
  /\ []( (pc = "roundrobin" /\ Len(selectedServers) < maxServers) =>
           /\ capOfRun >= 3
           /\ \A g \in allGroups :
                Cardinality({ i \in DOMAIN serversToTest :
                  getRegionFromCountry(serversToTest[i].country) = g }) <= 3 )
  /\ []( pc = "backfill" =>
           \/ Len(selectedServers) >= maxServers
           \/ \A g \in Range(regionOrder) : unselectedIn(selectedServers, g) = {} )
  /\ [][ pc = "backfill" =>
           /\ selectedServers' = selectedServers
           /\ selectedIds' = selectedIds
           /\ regionServerCount' = regionServerCount ]_vars

\* The backfill pass is over: it had room and an unselected successful probe
\* to look at, after a fill that had added servers
C24_Witness ==
  /\ pc = "final"
  /\ Len(selectedServers) < maxServers
  /\ Len(selectedServers) > Len(probedGroups)
  /\ \E i \in DOMAIN serverLatencies :
       serverLatencies[i].server.id \notin selectedIds

---------------------------------------------------------------------------
(* C25  No group, "Other" included, has more than 3 servers in the         *)
(* selection or in the presentation order, whatever maxServers is, and no  *)
(* priority group's count reaches the cap value 4.                         *)

C25_AtMostThreePerGroup ==
  \A g \in allGroups :
    /\ countIn(selectedServers, g) <= probesPerRegion
    /\ countIn(sortedServers, g) <= probesPerRegion
    /\ g \in Range(regionOrder) => regionServerCount[g] < regionCap

\* A selection under the cap value 4 with maxServers above 3 times the
\* number of discovered groups: a group has its 3 servers in the final list
C25_Witness ==
  /\ SelectionDone
  /\ maxServers > 3 * Cardinality(discoveredGroups)
  /\ capOfRun = regionCap
  /\ \E g \in Range(regionOrder) :
       /\ countIn(sortedServers, g) = probesPerRegion
       /\ regionServerCount[g] = probesPerRegion

---------------------------------------------------------------------------
(* C26  No server of the group "Other" is in the selection before the      *)
(* final pass.  The final pass adds one only while the selection is below  *)
(* maxServers and every successful probe of every priority group is        *)
(* already selected, and every selected server of "Other" is a successful  *)
(* probe.                                                                  *)

otherIn(sel) == { n \in DOMAIN sel : groupOf(sel[n]) = "Other" }

C26_OtherOnlyInFinalPass ==
  /\ []( pc \in { "coverage", "roundrobin", "backfill", "final" } =>
           otherIn(selectedServers) = {} )
  /\ []( \A n \in otherIn(selectedServers) :
           /\ selectedServers[n] \in Range(serverLatencies)
           /\ selectedServers[n].server \notin Range(failedServers) )
  /\ [][ otherIn(selectedServers') # otherIn(selectedServers) =>
           /\ pc = "final"
           /\ Len(selectedServers) < maxServers
           /\ \A g \in Range(regionOrder) : unselectedIn(selectedServers, g) = {} ]_vars

\* The final pass has added a server of "Other" while another candidate of
\* "Other" or of a priority group had failed its probe
C26_Witness ==
  /\ pc = "sort"
  /\ otherIn(selectedServers) # {}
  /\ Len(failedServers) > 0
  /\ Len(selectedServers) > Cardinality(otherIn(selectedServers)) + Len(probedGroups)

---------------------------------------------------------------------------
(* C27  With maxServers below the number of priority groups that have a    *)
(* probed candidate, the coverage pass leaves one pick for every such      *)
(* group, in priority order, no later pass adds to it, and the servers     *)
(* tested are exactly the picks of the first maxServers of these groups.   *)

C27_TruncatedCoverage ==
  (ProbesDone /\ pc # "coverage" /\ maxServers < Len(probedGroups)) =>
    /\ Len(selectedServers) = Len(probedGroups)
    /\ \A k \in DOMAIN probedGroups :
         coverageChoice(selectedServers[k], probedGroups[k])
    /\ SelectionDone =>
         /\ Len(sortedServers) = maxServers
         /\ Range(sortedServers) = { selectedServers[k] : k \in 1..maxServers }
         /\ \A k \in DOMAIN probedGroups :
              k > maxServers => countIn(sortedServers, probedGroups[k]) = 0

\* A finished run with maxServers below the number of probed priority
\* groups, whose last group was covered by a placeholder
C27_Witness ==
  /\ pc = "done" /\ SelectionDone
  /\ maxServers < Len(probedGroups)
  /\ Len(downloads) = maxServers
  /\ selectedServers[Len(selectedServers)].latency = failedLatency

---------------------------------------------------------------------------
(* C28  After every single addition to the selection, in the coverage      *)
(* pass, in the round-robin fill and after it, any two priority groups     *)
(* that each still have an unselected successful probe differ by at most   *)
(* 1 in their number of selected servers.  Every pass appends, so the      *)
(* selections after each addition are the prefixes of selectedServers.     *)

\* The priority groups with a successful probe outside a selection
openGroups(sel) ==
  { groupOf(e) : e \in { x \in Range(serverLatencies) :
                          \A n \in DOMAIN sel : sel[n].server.id # x.server.id } }
    \cap Range(regionOrder)

balanced(sel) ==
  \A g, h \in openGroups(sel) : countIn(sel, g) - countIn(sel, h) <= 1

C28_BalancedFill ==
  \A n \in 0..Len(selectedServers) : balanced(SubSeq(selectedServers, 1, n))

\* The fill has ended at maxServers in the middle of a sweep: a group served
\* in the sweep and one not yet served both have an unselected successful
\* probe and differ by exactly 1
C28_Witness ==
  /\ pc = "backfill"
  /\ Len(selectedServers) > Len(probedGroups)
  /\ \E g, h \in Range(regionOrder) :
       /\ unselectedIn(selectedServers, g) # {}
       /\ unselectedIn(selectedServers, h) # {}
       /\ countIn(selectedServers, g) = countIn(selectedServers, h) + 1

---------------------------------------------------------------------------
(* C29  From the request that sets the block until blockDuration later,    *)
(* every request of the key is answered 429, not passed on, and leaves     *)
(* the store as it is, whenever the cleanup interval fires.  Stated as     *)
(* claimed; the interval deletes a blocked entry whose firstRequest is     *)
(* more than one hour old, and the next request is passed on.              *)

blockInForce ==
  /\ rateLimitLog.blockedAt >= 0
  /\ dateNow < rateLimitLog.blockedAt + options.blockDuration

C29_BlockHolds ==
  [][ (RateLimitRequest /\ blockInForce) =>
        /\ rateLimitLog'.status = "429"
        /\ rateLimitStore' = rateLimitStore ]_vars

---------------------------------------------------------------------------
(* C30  From the fifth failed authentication of a window of 15 minutes     *)
(* that starts at the client's first failure, until 30 minutes later, no   *)
(* admin request of the client gets past the lockout test: it is answered  *)
(* 429 and changes neither the attempts nor the lockout.  A request passed *)
(* on leaves no attempts record.  Stated as claimed; a request that was    *)
(* waiting for the database when the fifth failure was counted deletes the *)
(* record if it carries the right key, and the lockout with it.            *)

lockoutInForce ==
  /\ adminLog.fifthFailure >= 0
  /\ dateNow < adminLog.fifthFailure + LOCKOUT_DURATION

C30_AdminLockout ==
  /\ [][ (lockoutInForce /\ \E apiKey \in sentKeys : AdminAuthEnter(apiKey)) =>
          /\ adminLog'.status = "429"
          /\ adminPending' = adminPending
          /\ loginAttemptStore' = loginAttemptStore ]_vars
  /\ [][ ((\E apiKey \in sentKeys : AdminAuthResume(apiKey))
            /\ adminLog'.status = "next") =>
          clientIp \notin DOMAIN loginAttemptStore' ]_vars

====
